---- MODULE Spec2Model ----
(***************************************************************************)
(* Model of decorate/core.py: the ArgParser argument composer and the      *)
(* precall / postcall decorators that use it, and of decorate/debug.py:    *)
(* the logging helpers built on the composer.                              *)
(*                                                                         *)
(* Python values are modelled as strings, tuples as sequences and dicts    *)
(* as functions from key strings to values.  A behaviour is either the     *)
(* life of one ArgParser instance driven directly by a user, or the life   *)
(* of one decorator instance and the calls of the function it wraps, or a  *)
(* series of uses of the debug helpers on one function.                    *)
(***************************************************************************)
EXTENDS Naturals, Sequences, FiniteSets, TLC

VARIABLES
    parser,   \* the ArgParser instance: its fields as a record
    pos,      \* get(): index of the next entry of config_sequence
    exc,      \* get(): the exception that ended it, or NoExc
    gets,     \* number of get() calls started on the instance
    rets,     \* the args tuples get() has returned, in order
    deco,     \* the precall / postcall instance: its fields as a record
    given,    \* the observer argument the decorator was constructed with
    func,     \* the function the decorator wraps
    frames,   \* caller -> activation of the wrapper
    ncalls,   \* number of wrapper activations started so far
    dbg       \* the debug helper in use: its arguments, log output and outcome

vars == <<parser, pos, exc, gets, rets, deco, given, func, frames, ncalls, dbg>>
parserVars == <<parser, pos, exc, gets, rets>>
decoVars == <<deco, given, func, frames, ncalls>>
debugVars == <<dbg>>

-----------------------------------------------------------------------------
(* Bounds *)

MaxArgs == 2      \* longest positional argument tuple of a call
MaxCfg == 3       \* longest configuration sequence given to an ArgParser
MaxGets == 2      \* get() calls on one ArgParser instance
MaxObs == 2       \* longest observer collection given to a decorator
MaxCalls == 2     \* calls of the decorated function
MaxCallers == 2   \* callers inside the decorated function at the same time

-----------------------------------------------------------------------------
(* Python values *)

None == "None"
Values == {"1", "2"}
KwValues == {"value"}
Names == {"key", "default_value"}
EmptyDict == [n \in {} |-> None]

RECURSIVE TuplesUpTo(_, _)
TuplesUpTo(S, n) ==
    IF n = 0 THEN {<<>>}
    ELSE LET shorter == TuplesUpTo(S, n - 1)
         IN  shorter \cup {Append(t, x) : t \in {u \in shorter : Len(u) = n - 1}, x \in S}

Dicts(K, V) == UNION {[D -> V] : D \in SUBSET K}

CallArgs == TuplesUpTo(Values, MaxArgs)
CallKwargs == Dicts(Names, KwValues)

\* dict.update(other): keys of other overwrite, other keys stay
DictUpdate(d, other) ==
    [n \in DOMAIN d \cup DOMAIN other |-> IF n \in DOMAIN other THEN other[n] ELSE d[n]]

-----------------------------------------------------------------------------
(* Target functions and their signatures *)

Empty == "<empty>"     \* inspect.Parameter.empty
Functions == {"test_func", "test_function"}

\* inspect.signature(f).parameters, in declaration order
Parameters(f) ==
    IF f = "test_function"
    THEN << [name |-> "default_value", default |-> "default"],
            [name |-> "args", default |-> Empty],
            [name |-> "kwargs", default |-> Empty] >>
    ELSE << [name |-> "args", default |-> Empty],
            [name |-> "kwargs", default |-> Empty] >>

NoExc == [type |-> "none", origin |-> "none"]

\* A call of f: test_func's body is `pass`; test_function binds its first
\* positional argument to default_value and returns that parameter.
Invoke(f, a, k) ==
    IF f = "test_function"
    THEN IF Len(a) > 0 /\ "default_value" \in DOMAIN k
         THEN [exc |-> [type |-> "TypeError", origin |-> f], value |-> None]
         ELSE [exc |-> NoExc,
               value |-> IF Len(a) > 0 THEN a[1]
                         ELSE IF "default_value" \in DOMAIN k THEN k["default_value"]
                         ELSE "default"]
    ELSE [exc |-> NoExc, value |-> None]

-----------------------------------------------------------------------------
(* ArgParser *)

CONFIG_INCLUDE_ARGS == 0
CONFIG_INCLUDE_KWARGS == 1
CONFIG_INCLUDE_DEFAULTS == 2
CONFIG_INSERT_FUNCTION_AT_FRONT == 3
CONFIG_INSERT_OUTPUT_AT_END == 4
UnknownTag == CONFIG_INSERT_OUTPUT_AT_END + 1    \* a tag self._dict does not hold

\* self._dict: the tags that have a handler
Handlers ==
    {CONFIG_INCLUDE_ARGS, CONFIG_INCLUDE_KWARGS, CONFIG_INCLUDE_DEFAULTS,
     CONFIG_INSERT_FUNCTION_AT_FRONT, CONFIG_INSERT_OUTPUT_AT_END}

\* A configuration entry: a bare tag, or a tuple (tag, payload)
Bare(tag) == [is_tuple |-> FALSE, cfg |-> tag, arg |-> None]
Tagged(tag, payload) == [is_tuple |-> TRUE, cfg |-> tag, arg |-> payload]

Payloads == {"42"}
ConfigEntries ==
    {Bare(t) : t \in Handlers \cup {UnknownTag}}
    \cup {Tagged(t, p) : t \in {CONFIG_INSERT_OUTPUT_AT_END, UnknownTag}, p \in Payloads}

NoFunction == "none"

ArgParser_init(function, function_args, function_kwargs, config_sequence) ==
    [function |-> function,
     function_args |-> function_args,
     function_kwargs |-> function_kwargs,
     config_sequence |-> config_sequence,
     args |-> <<>>,
     kwargs |-> EmptyDict]

NoParser == ArgParser_init(NoFunction, <<>>, EmptyDict, <<>>)

\* the call's positional arguments assigned instead of appended
include_args_assign(self) ==
    [self EXCEPT !.args = self.function_args]

include_args(self) ==
    [self EXCEPT !.args = self.args \o self.function_args]

\* the keyword map replaced by the call's keyword arguments instead of updated
include_kwargs_replace(self) ==
    [self EXCEPT !.kwargs = self.function_kwargs]

include_kwargs(self) ==
    [self EXCEPT !.kwargs = DictUpdate(self.kwargs, self.function_kwargs)]

\* lines 246-251: the signature's parameters that declare a default, as a dict
SignatureDefaults(f) ==
    LET ps == Parameters(f)
        withDefault == {i \in 1..Len(ps) : ps[i].default # Empty}
    IN  [n \in {ps[i].name : i \in withDefault} |->
            ps[CHOOSE i \in withDefault : ps[i].name = n].default]

\* the defaults merged into the call's own keyword map as well
include_defaults_aliased(self) ==
    LET defaults == SignatureDefaults(self.function)
        notOverwritten == [n \in DOMAIN defaults \ DOMAIN self.kwargs |-> defaults[n]]
    IN  [self EXCEPT !.kwargs = DictUpdate(self.kwargs, notOverwritten),
                     !.function_kwargs = DictUpdate(self.function_kwargs, notOverwritten)]

\* include_defaults without the "not already overwritten" filter of lines 254-258
include_defaults_unfiltered(self) ==
    [self EXCEPT !.kwargs = DictUpdate(self.kwargs, SignatureDefaults(self.function))]

include_defaults(self) ==
    LET defaults == SignatureDefaults(self.function)
        notOverwritten == [n \in DOMAIN defaults \ DOMAIN self.kwargs |-> defaults[n]]
    IN  [self EXCEPT !.kwargs = DictUpdate(self.kwargs, notOverwritten)]

\* the function put at the end of the tuple instead of the front
insert_function_at_end(self) ==
    [self EXCEPT !.args = self.args \o <<self.function>>]

insert_function_at_front(self) ==
    [self EXCEPT !.args = <<self.function>> \o self.args]

\* the output put at the front of the tuple instead of the end
insert_output_at_front(self, output) ==
    [self EXCEPT !.args = <<output>> \o self.args]

insert_output_at_end(self, output) ==
    [self EXCEPT !.args = self.args \o <<output>>]

KeyError == [type |-> "KeyError", origin |-> "ArgParser"]
ArityError == [type |-> "TypeError", origin |-> "ArgParser"]

\* the loop body with a missing tag skipped (self._dict.get instead of [])
Dispatch_skipping(self, config) ==
    IF config.cfg \notin Handlers
    THEN [self |-> self, exc |-> NoExc]
    ELSE IF config.is_tuple
    THEN IF config.cfg = CONFIG_INSERT_OUTPUT_AT_END
         THEN [self |-> insert_output_at_end(self, config.arg), exc |-> NoExc]
         ELSE [self |-> self, exc |-> ArityError]
    ELSE IF config.cfg = CONFIG_INCLUDE_ARGS
         THEN [self |-> include_args(self), exc |-> NoExc]
    ELSE IF config.cfg = CONFIG_INCLUDE_KWARGS
         THEN [self |-> include_kwargs(self), exc |-> NoExc]
    ELSE IF config.cfg = CONFIG_INCLUDE_DEFAULTS
         THEN [self |-> include_defaults(self), exc |-> NoExc]
    ELSE IF config.cfg = CONFIG_INSERT_FUNCTION_AT_FRONT
         THEN [self |-> insert_function_at_front(self), exc |-> NoExc]
    ELSE [self |-> self, exc |-> ArityError]

\* One iteration of get()'s loop: look the tag up in self._dict and call the
\* handler, with the payload when the entry is a tuple.  A missing tag is a
\* KeyError; a handler called with the wrong number of arguments is a
\* TypeError.
Dispatch(self, config) ==
    IF config.cfg \notin Handlers
    THEN [self |-> self, exc |-> KeyError]
    ELSE IF config.is_tuple
    THEN IF config.cfg = CONFIG_INSERT_OUTPUT_AT_END
         THEN [self |-> insert_output_at_end(self, config.arg), exc |-> NoExc]
         ELSE [self |-> self, exc |-> ArityError]
    ELSE IF config.cfg = CONFIG_INCLUDE_ARGS
         THEN [self |-> include_args(self), exc |-> NoExc]
    ELSE IF config.cfg = CONFIG_INCLUDE_KWARGS
         THEN [self |-> include_kwargs(self), exc |-> NoExc]
    ELSE IF config.cfg = CONFIG_INCLUDE_DEFAULTS
         THEN [self |-> include_defaults(self), exc |-> NoExc]
    ELSE IF config.cfg = CONFIG_INSERT_FUNCTION_AT_FRONT
         THEN [self |-> insert_function_at_front(self), exc |-> NoExc]
    ELSE [self |-> self, exc |-> ArityError]

\* get() run to its end on `self`, from entry i of its config_sequence
RECURSIVE get_from(_, _)
get_from(self, i) ==
    IF i > Len(self.config_sequence)
    THEN [self |-> self, exc |-> NoExc]
    ELSE LET r == Dispatch(self, self.config_sequence[i])
         IN  IF r.exc # NoExc THEN r ELSE get_from(r.self, i + 1)

get(self) == get_from(self, 1)

-----------------------------------------------------------------------------
(* One ArgParser instance used directly: get() stepped entry by entry *)

InitParser ==
    /\ \E f \in Functions, a \in CallArgs, k \in CallKwargs,
          cs \in TuplesUpTo(ConfigEntries, MaxCfg) :
            parser = ArgParser_init(f, a, k, cs)
    /\ pos = 0
    /\ exc = NoExc
    /\ gets = 0
    /\ rets = <<>>

\* a caller enters get(); a caller that caught an exception may call again
GetCall ==
    /\ parser.function # NoFunction
    /\ pos = 0 \/ exc # NoExc
    /\ gets < MaxGets
    /\ pos' = 1
    /\ exc' = NoExc
    /\ gets' = gets + 1
    /\ UNCHANGED <<parser, rets>>
    /\ UNCHANGED <<decoVars, debugVars>>

\* the loop body for the entry at pos
GetStep ==
    /\ exc = NoExc
    /\ pos \in 1..Len(parser.config_sequence)
    /\ LET r == Dispatch(parser, parser.config_sequence[pos])
       IN  /\ parser' = r.self
           /\ exc' = r.exc
           /\ pos' = IF r.exc = NoExc THEN pos + 1 ELSE pos
    /\ UNCHANGED <<gets, rets>>
    /\ UNCHANGED <<decoVars, debugVars>>

\* return self.args, self.kwargs  (the dict returned is self.kwargs itself)
GetReturn ==
    /\ exc = NoExc
    /\ pos = Len(parser.config_sequence) + 1
    /\ pos' = 0
    /\ rets' = Append(rets, parser.args)
    /\ UNCHANGED <<parser, exc, gets>>
    /\ UNCHANGED <<decoVars, debugVars>>

ParserNext == GetCall \/ GetStep \/ GetReturn

-----------------------------------------------------------------------------
(* Observers and the observer argument of a decorator *)

Observers == {"updateArgs", "updateKwargs", "raiser"}
NotCallable == "1"
Elements == Observers \cup {NotCallable}

\* a call for an observer: updateArgs and updateKwargs record and return
\* None, raiser raises.  The value returned is discarded by the wrappers.
InvokeObserver(fn, a, k) ==
    IF fn = "raiser" THEN [type |-> "RuntimeError", origin |-> fn] ELSE NoExc

\* What a caller may pass as prefunctions / postfunctions: nothing, one
\* callable, a list, a one-shot iterator (a generator), or a number.
ObserverArguments ==
    {[type |-> "NoneType", items |-> <<>>], [type |-> "int", items |-> <<>>]}
    \cup {[type |-> "function", items |-> <<fn>>] : fn \in Observers}
    \cup {[type |-> t, items |-> xs] :
            t \in {"list", "iterator"}, xs \in TuplesUpTo(Elements, MaxObs)}

IsCallable(x) == x.type = "function"
IsIterable(x) == x.type \in {"list", "iterator"}

ValueError == [type |-> "ValueError", origin |-> "__init__"]

precall_init(prefunctions, pass_inputs, pass_func) ==
    LET stored ==
            IF prefunctions.type = "NoneType" THEN [type |-> "list", items |-> <<>>]
            ELSE IF IsCallable(prefunctions)
                 THEN [type |-> "list", items |-> prefunctions.items]
            ELSE prefunctions
    IN  [cls |-> "precall",
         exc |-> IF prefunctions.type # "NoneType" /\ ~IsCallable(prefunctions)
                    /\ ~IsIterable(prefunctions)
                 THEN ValueError ELSE NoExc,
         prefunctions |-> stored,
         pass_inputs |-> pass_inputs,
         pass_func |-> pass_func]

postcall_init(postfunctions, pass_inputs, pass_func, pass_output) ==
    LET stored ==
            IF postfunctions.type = "NoneType" THEN [type |-> "list", items |-> <<>>]
            ELSE IF IsCallable(postfunctions)
                 THEN [type |-> "list", items |-> postfunctions.items]
            ELSE postfunctions
    IN  [cls |-> "postcall",
         exc |-> IF postfunctions.type # "NoneType" /\ ~IsCallable(postfunctions)
                    /\ ~IsIterable(postfunctions)
                 THEN ValueError ELSE NoExc,
         postfunctions |-> stored,
         pass_inputs |-> pass_inputs,
         pass_func |-> pass_func,
         pass_output |-> pass_output]

NoDeco == [cls |-> "none", exc |-> NoExc]
NoArgument == [type |-> "none", items |-> <<>>]

\* the collection the wrapper iterates: self.prefunctions / self.postfunctions
Collection(d) == IF d.cls = "precall" THEN d.prefunctions ELSE d.postfunctions

WithCollection(d, coll) ==
    IF d.cls = "precall" THEN [d EXCEPT !.prefunctions = coll]
    ELSE [d EXCEPT !.postfunctions = coll]

-----------------------------------------------------------------------------
(* The wrapper around the decorated function *)

IdleFrame ==
    [pc |-> "idle", n |-> 0, args |-> <<>>, kwargs |-> EmptyDict,
     func_kwargs |-> EmptyDict,
     wrapper_args |-> <<>>, wrapper_kwargs |-> EmptyDict,
     i |-> 0, result |-> None, exc |-> NoExc, log |-> <<>>]

Event(callee, a, k) == [callee |-> callee, args |-> a, kwargs |-> k]

\* the call's inputs forwarded whatever pass_inputs says
PrecallConfig_always(d) ==
    <<Bare(CONFIG_INCLUDE_ARGS), Bare(CONFIG_INCLUDE_KWARGS), Bare(CONFIG_INCLUDE_DEFAULTS)>>
    \o (IF d.pass_func THEN <<Bare(CONFIG_INSERT_FUNCTION_AT_FRONT)>> ELSE <<>>)

\* precall: lines 50-57
PrecallConfig(d) ==
    (IF d.pass_inputs
     THEN <<Bare(CONFIG_INCLUDE_ARGS), Bare(CONFIG_INCLUDE_KWARGS),
            Bare(CONFIG_INCLUDE_DEFAULTS)>>
     ELSE <<>>)
    \o (IF d.pass_func THEN <<Bare(CONFIG_INSERT_FUNCTION_AT_FRONT)>> ELSE <<>>)

\* postcall: lines 120-131
PostcallConfig(d, result) ==
    (IF d.pass_inputs
     THEN <<Bare(CONFIG_INCLUDE_ARGS), Bare(CONFIG_INCLUDE_KWARGS),
            Bare(CONFIG_INCLUDE_DEFAULTS)>>
     ELSE <<>>)
    \o (IF d.pass_func THEN <<Bare(CONFIG_INSERT_FUNCTION_AT_FRONT)>> ELSE <<>>)
    \o (IF d.pass_output THEN <<Tagged(CONFIG_INSERT_OUTPUT_AT_END, result)>> ELSE <<>>)

\* `for fn in coll`: a list is read through the activation's own index, a
\* one-shot iterator is its own iterator and hands out what is left of it.
HasNext(d, fr) ==
    IF Collection(d).type = "list" THEN fr.i <= Len(Collection(d).items)
    ELSE Len(Collection(d).items) > 0

NextItem(d, fr) ==
    IF Collection(d).type = "list" THEN Collection(d).items[fr.i]
    ELSE Head(Collection(d).items)

AfterNext(d) ==
    IF Collection(d).type = "list" THEN d
    ELSE WithCollection(d, [Collection(d) EXCEPT !.items = Tail(@)])

\* the loop body with the observer's exception swallowed
ObserverCall_swallowing(fr, fn) ==
    IF fn \notin Observers
    THEN [fr EXCEPT !.pc = "raised", !.i = @ + 1,
                    !.exc = [type |-> "TypeError", origin |-> fn]]
    ELSE [fr EXCEPT !.i = @ + 1,
                    !.log = Append(@, Event(fn, fr.wrapper_args, fr.wrapper_kwargs))]

\* the composed arguments kept in one place for all activations (as an
\* attribute of the decorator would be): the loop body reads what the
\* activation that entered last has composed
ObserverCall_shared(fr, fn) ==
    LET active == {c \in DOMAIN frames : frames[c].pc = "loop"}
        last == CHOOSE c \in active : \A d \in active : frames[d].n <= frames[c].n
        a == frames[last].wrapper_args
        k == frames[last].wrapper_kwargs
    IN  IF fn \notin Observers
        THEN [fr EXCEPT !.pc = "raised", !.i = @ + 1,
                        !.exc = [type |-> "TypeError", origin |-> fn]]
        ELSE IF InvokeObserver(fn, a, k) # NoExc
             THEN [fr EXCEPT !.pc = "raised", !.i = @ + 1,
                             !.exc = InvokeObserver(fn, a, k),
                             !.log = Append(@, Event(fn, a, k))]
             ELSE [fr EXCEPT !.i = @ + 1, !.log = Append(@, Event(fn, a, k))]

\* the loop body: call fn with the composed arguments
ObserverCall(fr, fn) ==
    IF fn \notin Observers
    THEN [fr EXCEPT !.pc = "raised", !.i = @ + 1,
                    !.exc = [type |-> "TypeError", origin |-> fn]]
    ELSE LET e == InvokeObserver(fn, fr.wrapper_args, fr.wrapper_kwargs)
             logged == Append(fr.log, Event(fn, fr.wrapper_args, fr.wrapper_kwargs))
         IN  IF e # NoExc
             THEN [fr EXCEPT !.pc = "raised", !.i = @ + 1, !.exc = e, !.log = logged]
             ELSE [fr EXCEPT !.i = @ + 1, !.log = logged]

\* precall wrapper, lines 50-59: build cfg and compose.  args and kwargs are
\* what the caller passed; func_kwargs is the wrapper's kwargs dict as get()
\* leaves it: the ArgParser holds that same dict as function_kwargs.
PrecallEnter(d, f, n, a, k) ==
    LET r == get(ArgParser_init(f, a, k, PrecallConfig(d)))
        fr == [IdleFrame EXCEPT !.n = n, !.args = a, !.kwargs = k, !.i = 1,
                                !.func_kwargs = r.self.function_kwargs]
    IN  IF r.exc # NoExc
        THEN [fr EXCEPT !.pc = "raised", !.exc = r.exc]
        ELSE [fr EXCEPT !.pc = "loop", !.wrapper_args = r.self.args,
                        !.wrapper_kwargs = r.self.kwargs]

\* line 64 calling func with the composed arguments instead of the call's own
PrecallFinish_composed(f, fr) ==
    LET r == Invoke(f, fr.wrapper_args, fr.wrapper_kwargs)
        logged == Append(fr.log, Event(f, fr.wrapper_args, fr.wrapper_kwargs))
    IN  IF r.exc # NoExc
        THEN [fr EXCEPT !.pc = "raised", !.exc = r.exc, !.log = logged]
        ELSE [fr EXCEPT !.pc = "returned", !.result = r.value, !.log = logged]

\* precall wrapper, line 64: return func called with the wrapper's args and
\* kwargs
PrecallFinish(f, fr) ==
    LET r == Invoke(f, fr.args, fr.func_kwargs)
        logged == Append(fr.log, Event(f, fr.args, fr.func_kwargs))
    IN  IF r.exc # NoExc
        THEN [fr EXCEPT !.pc = "raised", !.exc = r.exc, !.log = logged]
        ELSE [fr EXCEPT !.pc = "returned", !.result = r.value, !.log = logged]

\* the wrapper going on to the observers although func raised
PostcallEnter_catching(d, f, n, a, k) ==
    LET out == Invoke(f, a, k)
        fr == [IdleFrame EXCEPT !.n = n, !.args = a, !.kwargs = k, !.i = 1,
                                !.log = <<Event(f, a, k)>>]
        r == get(ArgParser_init(f, a, k, PostcallConfig(d, out.value)))
    IN  [fr EXCEPT !.pc = "loop", !.result = out.value,
                   !.wrapper_args = r.self.args, !.wrapper_kwargs = r.self.kwargs]

\* the observers run first and func only after them, as in precall
PostcallEnter_late(d, f, n, a, k) ==
    LET out == Invoke(f, a, k)
        fr == [IdleFrame EXCEPT !.n = n, !.args = a, !.kwargs = k, !.i = 1]
        r == get(ArgParser_init(f, a, k, PostcallConfig(d, out.value)))
    IN  IF out.exc # NoExc
        THEN [fr EXCEPT !.pc = "raised", !.exc = out.exc, !.log = <<Event(f, a, k)>>]
        ELSE [fr EXCEPT !.pc = "loop", !.result = out.value,
                        !.wrapper_args = r.self.args, !.wrapper_kwargs = r.self.kwargs]

\* postcall wrapper, lines 118-133: call func, build cfg and compose
PostcallEnter(d, f, n, a, k) ==
    LET out == Invoke(f, a, k)
        fr == [IdleFrame EXCEPT !.n = n, !.args = a, !.kwargs = k, !.i = 1,
                                !.log = <<Event(f, a, k)>>]
        r == get(ArgParser_init(f, a, k, PostcallConfig(d, out.value)))
    IN  IF out.exc # NoExc
        THEN [fr EXCEPT !.pc = "raised", !.exc = out.exc]
        ELSE IF r.exc # NoExc
        THEN [fr EXCEPT !.pc = "raised", !.exc = r.exc, !.result = out.value]
        ELSE [fr EXCEPT !.pc = "loop", !.result = out.value,
                        !.wrapper_args = r.self.args,
                        !.wrapper_kwargs = r.self.kwargs]

\* postcall wrapper, line 138: return result
PostcallFinish(fr) == [fr EXCEPT !.pc = "returned"]

Constructed(cls) == deco.cls = cls /\ deco.exc = NoExc

PrecallWrapper(c, a, k) ==
    /\ Constructed("precall")
    /\ frames[c].pc = "idle"
    /\ ncalls < MaxCalls
    /\ ncalls' = ncalls + 1
    /\ frames' = [frames EXCEPT ![c] = PrecallEnter(deco, func, ncalls + 1, a, k)]
    /\ UNCHANGED <<deco, given, func>>
    /\ UNCHANGED <<parserVars, debugVars>>

PrecallObserver(c) ==
    /\ Constructed("precall")
    /\ frames[c].pc = "loop"
    /\ HasNext(deco, frames[c])
    /\ frames' = [frames EXCEPT ![c] = ObserverCall(@, NextItem(deco, frames[c]))]
    /\ deco' = AfterNext(deco)
    /\ UNCHANGED <<given, func, ncalls>>
    /\ UNCHANGED <<parserVars, debugVars>>

PrecallTarget(c) ==
    /\ Constructed("precall")
    /\ frames[c].pc = "loop"
    /\ ~HasNext(deco, frames[c])
    /\ frames' = [frames EXCEPT ![c] = PrecallFinish(func, @)]
    /\ UNCHANGED <<deco, given, func, ncalls>>
    /\ UNCHANGED <<parserVars, debugVars>>

PostcallWrapper(c, a, k) ==
    /\ Constructed("postcall")
    /\ frames[c].pc = "idle"
    /\ ncalls < MaxCalls
    /\ ncalls' = ncalls + 1
    /\ frames' = [frames EXCEPT ![c] = PostcallEnter(deco, func, ncalls + 1, a, k)]
    /\ UNCHANGED <<deco, given, func>>
    /\ UNCHANGED <<parserVars, debugVars>>

PostcallObserver(c) ==
    /\ Constructed("postcall")
    /\ frames[c].pc = "loop"
    /\ HasNext(deco, frames[c])
    /\ frames' = [frames EXCEPT ![c] = ObserverCall(@, NextItem(deco, frames[c]))]
    /\ deco' = AfterNext(deco)
    /\ UNCHANGED <<given, func, ncalls>>
    /\ UNCHANGED <<parserVars, debugVars>>

PostcallReturn(c) ==
    /\ Constructed("postcall")
    /\ frames[c].pc = "loop"
    /\ ~HasNext(deco, frames[c])
    /\ frames' = [frames EXCEPT ![c] = PostcallFinish(@)]
    /\ UNCHANGED <<deco, given, func, ncalls>>
    /\ UNCHANGED <<parserVars, debugVars>>

\* the caller has the result or the exception; the activation is gone
WrapperExit(c) ==
    /\ frames[c].pc \in {"returned", "raised"}
    /\ frames' = [frames EXCEPT ![c] = IdleFrame]
    /\ UNCHANGED <<deco, given, func, ncalls>>
    /\ UNCHANGED <<parserVars, debugVars>>

DecoNext ==
    \/ \E c \in DOMAIN frames, a \in CallArgs, k \in CallKwargs : PrecallWrapper(c, a, k)
    \/ \E c \in DOMAIN frames : PrecallObserver(c)
    \/ \E c \in DOMAIN frames : PrecallTarget(c)
    \/ \E c \in DOMAIN frames, a \in CallArgs, k \in CallKwargs : PostcallWrapper(c, a, k)
    \/ \E c \in DOMAIN frames : PostcallObserver(c)
    \/ \E c \in DOMAIN frames : PostcallReturn(c)
    \/ \E c \in DOMAIN frames : WrapperExit(c)

\* @precall(arg, pass_inputs, pass_func) / @postcall(arg, ..., pass_output)
\* applied to f; a construction that raised leaves nothing to call
InitDeco ==
    /\ \E arg \in ObserverArguments, f \in Functions, pi \in BOOLEAN, pf \in BOOLEAN :
          /\ given = arg
          /\ func = f
          /\ \/ deco = precall_init(arg, pi, pf)
             \/ \E po \in BOOLEAN : deco = postcall_init(arg, pi, pf, po)
    /\ frames = [c \in {1} |-> IdleFrame]
    /\ ncalls = 0

-----------------------------------------------------------------------------
(* debug.py: logging a function's inputs and outputs *)

\* an optional argument left at its default None, or supplied
Absent == [none |-> TRUE, val |-> <<>>]
Supplied(v) == [none |-> FALSE, val |-> v]
InputArgs == {Absent} \cup {Supplied(a) : a \in CallArgs}
InputKwargs == {Absent} \cup {Supplied(k) : k \in CallKwargs}
Outputs == {None} \cup Values

\* debug_input, lines 67-71 and 82-86
cfg_seq ==
    <<Bare(CONFIG_INCLUDE_ARGS), Bare(CONFIG_INCLUDE_KWARGS), Bare(CONFIG_INCLUDE_DEFAULTS)>>

\* debug_input, lines 73 and 88: ArgParser(func, args, kwargs, cfg_seq).get().
\* With function_args None the tuple concatenation of include_args raises
\* TypeError; with function_kwargs None dict.update of include_kwargs does.
full_arguments(f, input_args, input_kwargs) ==
    IF input_args.none
    THEN [self |-> ArgParser_init(f, <<>>, EmptyDict, cfg_seq),
          exc |-> [type |-> "TypeError", origin |-> "include_args"]]
    ELSE IF input_kwargs.none
    THEN [self |-> include_args(ArgParser_init(f, input_args.val, EmptyDict, cfg_seq)),
          exc |-> [type |-> "TypeError", origin |-> "include_kwargs"]]
    ELSE get(ArgParser_init(f, input_args.val, input_kwargs.val, cfg_seq))

\* debug_input.messages: one line, the timestamp left out
messages(f, a, k) ==
    <<[action |-> "CALL", function |-> f, args |-> a, kwargs |-> k]>>

\* debug_output.messages
messages_output(f, opt) ==
    <<[action |-> "RETURN", function |-> f, output |-> opt]>>

\* no helper running for function f
IdleDebug(f) ==
    [func |-> f, op |-> "none", pc |-> "idle",
     input_args |-> Absent, input_kwargs |-> Absent,
     msgs |-> <<>>, calls |-> <<>>, result |-> None, exc |-> NoExc]

NoDebug == IdleDebug(NoFunction)

\* debug_input(func, deco=False, input_args, input_kwargs), lines 59-78
debug_input(d, input_args, input_kwargs) ==
    LET r == full_arguments(d.func, input_args, input_kwargs)
        st == [d EXCEPT !.op = "debug_input", !.input_args = input_args,
                        !.input_kwargs = input_kwargs]
    IN  IF r.exc # NoExc
        THEN [st EXCEPT !.pc = "raised", !.exc = r.exc]
        ELSE [st EXCEPT !.pc = "returned", !.result = None,
                        !.msgs = @ \o messages(d.func, r.self.args, r.self.kwargs)]

\* the wrapper debug_input(func) returns, lines 81-93
debug_input_wrapper(d, a, k) ==
    LET r == full_arguments(d.func, Supplied(a), Supplied(k))
        out == Invoke(d.func, a, k)
        st == [d EXCEPT !.op = "debug_input.wrapper", !.input_args = Supplied(a),
                        !.input_kwargs = Supplied(k)]
    IN  IF r.exc # NoExc
        THEN [st EXCEPT !.pc = "raised", !.exc = r.exc]
        ELSE LET logged == [st EXCEPT
                              !.msgs = @ \o messages(d.func, r.self.args, r.self.kwargs),
                              !.calls = Append(@, Event(d.func, a, k))]
             IN  IF out.exc # NoExc
                 THEN [logged EXCEPT !.pc = "raised", !.exc = out.exc]
                 ELSE [logged EXCEPT !.pc = "returned", !.result = out.value]

\* debug_output(func, deco=False, output), lines 118-129
debug_output(d, output) ==
    [d EXCEPT !.op = "debug_output", !.pc = "returned", !.result = None,
              !.msgs = @ \o messages_output(d.func, output)]

\* the wrapper debug_output(func) returns, lines 133-138
debug_output_wrapper(d, a, k) ==
    LET out == Invoke(d.func, a, k)
        st == [d EXCEPT !.op = "debug_output.wrapper", !.input_args = Supplied(a),
                        !.input_kwargs = Supplied(k),
                        !.calls = Append(@, Event(d.func, a, k))]
    IN  IF out.exc # NoExc
        THEN [st EXCEPT !.pc = "raised", !.exc = out.exc]
        ELSE [st EXCEPT !.pc = "returned", !.result = out.value,
                        !.msgs = @ \o messages_output(d.func, out.value)]

\* the wrapper debug(func) returns, lines 28-32
debug(d, a, k) ==
    LET logged == debug_input(d, Supplied(a), Supplied(k))
        out == Invoke(d.func, a, k)
        called == [logged EXCEPT !.calls = Append(@, Event(d.func, a, k))]
    IN  IF logged.pc = "raised"
        THEN [logged EXCEPT !.op = "debug"]
        ELSE IF out.exc # NoExc
        THEN [called EXCEPT !.op = "debug", !.pc = "raised", !.exc = out.exc]
        ELSE [debug_output(called, out.value) EXCEPT !.op = "debug", !.result = out.value]

DebugInput(input_args, input_kwargs) ==
    /\ dbg.pc = "idle"
    /\ dbg' = debug_input(dbg, input_args, input_kwargs)
    /\ UNCHANGED <<parserVars, decoVars>>

DebugInputWrapper(a, k) ==
    /\ dbg.pc = "idle"
    /\ dbg' = debug_input_wrapper(dbg, a, k)
    /\ UNCHANGED <<parserVars, decoVars>>

DebugOutput(output) ==
    /\ dbg.pc = "idle"
    /\ dbg' = debug_output(dbg, output)
    /\ UNCHANGED <<parserVars, decoVars>>

DebugOutputWrapper(a, k) ==
    /\ dbg.pc = "idle"
    /\ dbg' = debug_output_wrapper(dbg, a, k)
    /\ UNCHANGED <<parserVars, decoVars>>

Debug(a, k) ==
    /\ dbg.pc = "idle"
    /\ dbg' = debug(dbg, a, k)
    /\ UNCHANGED <<parserVars, decoVars>>

\* the caller has the result or the exception
DebugExit ==
    /\ dbg.pc \in {"returned", "raised"}
    /\ dbg' = IdleDebug(dbg.func)
    /\ UNCHANGED <<parserVars, decoVars>>

DebugNext ==
    \/ \E input_args \in InputArgs, input_kwargs \in InputKwargs :
          DebugInput(input_args, input_kwargs)
    \/ \E a \in CallArgs, k \in CallKwargs : DebugInputWrapper(a, k)
    \/ \E output \in Outputs : DebugOutput(output)
    \/ \E a \in CallArgs, k \in CallKwargs : DebugOutputWrapper(a, k)
    \/ \E a \in CallArgs, k \in CallKwargs : Debug(a, k)
    \/ DebugExit

-----------------------------------------------------------------------------
(* Specification *)

\* an ArgParser used on its own
InitP ==
    /\ InitParser
    /\ deco = NoDeco
    /\ given = NoArgument
    /\ func = NoFunction
    /\ frames = [c \in {1} |-> IdleFrame]
    /\ ncalls = 0
    /\ dbg = NoDebug

SpecParser == InitP /\ [][ParserNext]_vars

\* a decorated function and its calls
InitD ==
    /\ InitDeco
    /\ parser = NoParser
    /\ pos = 0
    /\ exc = NoExc
    /\ gets = 0
    /\ rets = <<>>
    /\ dbg = NoDebug

SpecDeco == InitD /\ [][DecoNext]_vars

\* a decorated function called by several callers at once: every caller (a
\* thread, or a call made from inside an observer) has its own activation
\* of the wrapper, and the activations' steps interleave
InitC ==
    /\ \E arg \in ObserverArguments, f \in Functions, pi \in BOOLEAN, pf \in BOOLEAN :
          /\ given = arg
          /\ func = f
          /\ \/ deco = precall_init(arg, pi, pf)
             \/ \E po \in BOOLEAN : deco = postcall_init(arg, pi, pf, po)
    /\ frames = [c \in 1..MaxCallers |-> IdleFrame]
    /\ ncalls = 0
    /\ parser = NoParser
    /\ pos = 0
    /\ exc = NoExc
    /\ gets = 0
    /\ rets = <<>>
    /\ dbg = NoDebug

\* what the concurrent callers pass: no, one or two positional arguments
\* and at most one keyword
ConcArgs == {<<>>, <<"1">>, <<"2", "1">>}
ConcKwargs == {k \in CallKwargs : Cardinality(DOMAIN k) <= 1}

ConcNext ==
    \/ \E c \in DOMAIN frames, a \in ConcArgs, k \in ConcKwargs : PrecallWrapper(c, a, k)
    \/ \E c \in DOMAIN frames : PrecallObserver(c)
    \/ \E c \in DOMAIN frames : PrecallTarget(c)
    \/ \E c \in DOMAIN frames, a \in ConcArgs, k \in ConcKwargs : PostcallWrapper(c, a, k)
    \/ \E c \in DOMAIN frames : PostcallObserver(c)
    \/ \E c \in DOMAIN frames : PostcallReturn(c)
    \/ \E c \in DOMAIN frames : WrapperExit(c)

SpecConc == InitC /\ [][ConcNext]_vars

\* the debug helpers used on one function
InitG ==
    /\ \E f \in Functions : dbg = IdleDebug(f)
    /\ parser = NoParser
    /\ pos = 0
    /\ exc = NoExc
    /\ gets = 0
    /\ rets = <<>>
    /\ deco = NoDeco
    /\ given = NoArgument
    /\ func = NoFunction
    /\ frames = [c \in {1} |-> IdleFrame]
    /\ ncalls = 0

SpecDebug == InitG /\ [][DebugNext]_vars

\* either
Init == InitP \/ InitD

Next == ParserNext \/ DecoNext

Spec == Init /\ [][Next]_vars

-----------------------------------------------------------------------------
(* Properties *)

\* the declared defaults of f, read off its parameter list
DefaultNames(f) ==
    {Parameters(f)[i].name : i \in {j \in 1..Len(Parameters(f)) : Parameters(f)[j].default # Empty}}

DeclaredDefault(f, n) ==
    Parameters(f)[CHOOSE i \in 1..Len(Parameters(f)) : Parameters(f)[i].name = n].default

\* [include-positional, include-keyword, include-defaults]
InputsThenDefaults ==
    <<Bare(CONFIG_INCLUDE_ARGS), Bare(CONFIG_INCLUDE_KWARGS), Bare(CONFIG_INCLUDE_DEFAULTS)>>

\* get() has returned once on a fresh instance
FirstGetReturned == gets = 1 /\ pos = 0 /\ exc = NoExc /\ Len(rets) = 1

\* C1: get() on a fresh ArgParser whose configuration sequence is
\* [include-positional, include-keyword, include-defaults] returns the call's
\* positional arguments unchanged and in order, and a keyword map holding the
\* explicit keyword arguments plus the declared defaults whose names are not
\* among the explicit keywords.
C1_InputsThenDefaults ==
    (parser.config_sequence = InputsThenDefaults /\ FirstGetReturned) =>
        /\ rets[1] = parser.function_args
        /\ DOMAIN parser.kwargs = DOMAIN parser.function_kwargs \cup DefaultNames(parser.function)
        /\ \A n \in DOMAIN parser.kwargs :
              parser.kwargs[n] = IF n \in DOMAIN parser.function_kwargs
                                 THEN parser.function_kwargs[n]
                                 ELSE DeclaredDefault(parser.function, n)

\* C1 witness: such a get() has returned for a call with two positional
\* arguments and an explicit keyword that names a parameter with a default
C1_Witness ==
    /\ parser.config_sequence = InputsThenDefaults
    /\ FirstGetReturned
    /\ parser.function = "test_function"
    /\ Len(parser.function_args) = 2
    /\ DOMAIN parser.function_kwargs = {"key", "default_value"}

-----------------------------------------------------------------------------
(* Properties of the decorators *)

\* the observers the decorator was given at construction, in order
Registered == given.items

TargetEvent(fr) == Event(func, fr.args, fr.kwargs)

\* one call of each observer of obs, in order, with the composed arguments
ObserverEvents(fr, obs) ==
    [j \in 1..Len(obs) |-> Event(obs[j], fr.wrapper_args, fr.wrapper_kwargs)]

\* the logged call is one of an observer, and that observer raised
Raised(e) == e.callee \in Observers /\ InvokeObserver(e.callee, e.args, e.kwargs) # NoExc

\* what calling the undecorated function with the activation's arguments does
Undecorated(fr) == Invoke(func, fr.args, fr.kwargs)

\* an observer argument that is neither absent, nor a callable, nor a
\* collection of callables
Invalid(arg) ==
    /\ arg.type \notin {"NoneType", "function"}
    /\ ~(IsIterable(arg) /\ \A j \in 1..Len(arg.items) : arg.items[j] \in Observers)

\* C2: a call of a precall-decorated function that returns has invoked every
\* registered observer exactly once, in registration order, and then the
\* target; it returns the target's result.
C2_PrecallOrder ==
    \A c \in DOMAIN frames :
        (deco.cls = "precall" /\ ~Invalid(given) /\ frames[c].pc = "returned") =>
            /\ frames[c].log = ObserverEvents(frames[c], Registered) \o <<TargetEvent(frames[c])>>
            /\ frames[c].result = Undecorated(frames[c]).value

\* C3: in precall, an observer that raises ends the call: its exception is
\* what the caller gets, it is the last call the wrapper made, and the
\* target was not invoked.
C3_PrecallObserverRaises ==
    \A c \in DOMAIN frames :
        deco.cls = "precall" =>
            \A j \in 1..Len(frames[c].log) :
                Raised(frames[c].log[j]) =>
                    /\ j = Len(frames[c].log)
                    /\ frames[c].pc = "raised"
                    /\ frames[c].exc = InvokeObserver(frames[c].log[j].callee,
                                                      frames[c].log[j].args,
                                                      frames[c].log[j].kwargs)
                    /\ \A i \in 1..Len(frames[c].log) : frames[c].log[i].callee \in Observers

\* C3 witness: the first of two listed observers raised
C3_Witness ==
    /\ deco.cls = "precall"
    /\ given = [type |-> "list", items |-> <<"raiser", "updateArgs">>]
    /\ frames[1].pc = "raised"
    /\ Len(frames[1].log) = 1
    /\ frames[1].exc.origin = "raiser"

\* C4: a call of a postcall-decorated function that returns has invoked the
\* target first and once, then every registered observer in registration
\* order; it returns the result captured from the target.
C4_PostcallOrder ==
    \A c \in DOMAIN frames :
        (deco.cls = "postcall" /\ ~Invalid(given) /\ frames[c].pc = "returned") =>
            /\ frames[c].log = <<TargetEvent(frames[c])>> \o ObserverEvents(frames[c], Registered)
            /\ frames[c].result = Undecorated(frames[c]).value

\* C5: in postcall, when the target raises, the caller gets that exception
\* and no observer has been invoked.
C5_PostcallTargetRaises ==
    \A c \in DOMAIN frames :
        (deco.cls = "postcall" /\ frames[c].pc # "idle"
            /\ Undecorated(frames[c]).exc # NoExc) =>
                /\ frames[c].pc = "raised"
                /\ frames[c].exc = Undecorated(frames[c]).exc
                /\ frames[c].log = <<TargetEvent(frames[c])>>

\* C5 witness: the target raised while two observers were registered
C5_Witness ==
    /\ deco.cls = "postcall"
    /\ given = [type |-> "list", items |-> <<"updateArgs", "updateKwargs">>]
    /\ frames[1].pc = "raised"
    /\ frames[1].exc = [type |-> "TypeError", origin |-> "test_function"]

\* C6: in postcall, when an observer raises, the target has been invoked
\* exactly once and before it, and the caller gets the observer's exception,
\* not the result.
C6_PostcallObserverRaises ==
    \A c \in DOMAIN frames :
        deco.cls = "postcall" =>
            \A j \in 1..Len(frames[c].log) :
                Raised(frames[c].log[j]) =>
                    /\ frames[c].log[1] = TargetEvent(frames[c])
                    /\ \A i \in 2..Len(frames[c].log) : frames[c].log[i].callee # func
                    /\ j = Len(frames[c].log)
                    /\ frames[c].pc = "raised"
                    /\ frames[c].exc = InvokeObserver(frames[c].log[j].callee,
                                                      frames[c].log[j].args,
                                                      frames[c].log[j].kwargs)

\* C6 witness: the second of two listed observers raised
C6_Witness ==
    /\ deco.cls = "postcall"
    /\ given = [type |-> "list", items |-> <<"updateArgs", "raiser">>]
    /\ frames[1].pc = "raised"
    /\ Len(frames[1].log) = 3
    /\ frames[1].exc.origin = "raiser"

\* C7: with no observer registered, a call of the decorated function does
\* what the undecorated function does: the target is invoked once with the
\* call's arguments, the same value comes back, the same exception is raised.
C7_NoObservers ==
    \A c \in DOMAIN frames :
        (deco.cls \in {"precall", "postcall"} /\ deco.exc = NoExc /\ Registered = <<>>) =>
            /\ frames[c].pc = "returned" =>
                  /\ Undecorated(frames[c]).exc = NoExc
                  /\ frames[c].result = Undecorated(frames[c]).value
                  /\ frames[c].log = <<TargetEvent(frames[c])>>
            /\ frames[c].pc = "raised" =>
                  /\ Undecorated(frames[c]).exc # NoExc
                  /\ frames[c].exc = Undecorated(frames[c]).exc
                  /\ frames[c].log = <<TargetEvent(frames[c])>>
            /\ frames[c].pc = "loop" =>
                  /\ ~HasNext(deco, frames[c])
                  /\ frames[c].log = IF deco.cls = "precall" THEN <<>>
                                     ELSE <<TargetEvent(frames[c])>>

\* C7 witness: precall with no observer and both flags set has returned
\* test_function's value for a call with arguments
C7_Witness ==
    /\ deco.cls = "precall"
    /\ deco.pass_inputs /\ deco.pass_func
    /\ Registered = <<>>
    /\ func = "test_function"
    /\ frames[1].pc = "returned"
    /\ frames[1].args = <<"1", "2">>
    /\ frames[1].result = "1"

\* C8: an invalid observer argument raises at construction, and no call of
\* the decorated function fails because an observer is not callable.
C8_InvalidRejected ==
    /\ (deco.cls \in {"precall", "postcall"} /\ Invalid(given)) => deco.exc = ValueError
    /\ \A c \in DOMAIN frames :
          ~(frames[c].pc = "raised"
            /\ frames[c].exc = [type |-> "TypeError", origin |-> NotCallable])

\* C9, the step: an iteration of get() on a bare prepend-function entry
PrependStep ==
    /\ pos \in 1..Len(parser.config_sequence)
    /\ parser.config_sequence[pos] = Bare(CONFIG_INSERT_FUNCTION_AT_FRONT)
    /\ pos' = pos + 1

\* C9, the decorators: every observer called under pass_func got func first
FunctionFirst ==
    \A c \in DOMAIN frames :
        (deco.cls \in {"precall", "postcall"} /\ deco.exc = NoExc /\ deco.pass_func) =>
            \A j \in 1..Len(frames[c].log) :
                frames[c].log[j].callee \in Observers =>
                    /\ Len(frames[c].log[j].args) >= 1
                    /\ frames[c].log[j].args[1] = func

\* C9: the prepend-function step puts the target function at index 0 and
\* moves every positional element already there one place right, whatever
\* steps came before; and with pass_func every observer of precall and
\* postcall receives the target function as its first positional argument.
C9_PrependFunction ==
    /\ [][PrependStep =>
            /\ Len(parser'.args) = Len(parser.args) + 1
            /\ parser'.args[1] = parser.function
            /\ \A i \in 1..Len(parser.args) : parser'.args[i + 1] = parser.args[i]]_vars
    /\ []FunctionFirst

\* C9 witness: the step has just run on an accumulator that held elements
C9_Witness ==
    /\ pos \in 2..(Len(parser.config_sequence) + 1)
    /\ exc = NoExc
    /\ parser.config_sequence[pos - 1] = Bare(CONFIG_INSERT_FUNCTION_AT_FRONT)
    /\ Len(parser.args) = 3
    /\ parser.args[1] = parser.function

\* C10, the step: an iteration of get() on an append-output entry
AppendStep ==
    /\ pos \in 1..Len(parser.config_sequence)
    /\ parser.config_sequence[pos].is_tuple
    /\ parser.config_sequence[pos].cfg = CONFIG_INSERT_OUTPUT_AT_END
    /\ pos' = pos + 1

\* C10, postcall: every observer called under pass_output got the target's
\* return value last, and that value is what the call returns
OutputLast ==
    \A c \in DOMAIN frames :
        (deco.cls = "postcall" /\ deco.exc = NoExc /\ deco.pass_output) =>
            /\ \A j \in 1..Len(frames[c].log) :
                  frames[c].log[j].callee \in Observers =>
                      /\ Len(frames[c].log[j].args) >= 1
                      /\ frames[c].log[j].args[Len(frames[c].log[j].args)]
                            = Undecorated(frames[c]).value
            /\ frames[c].pc = "returned" =>
                  frames[c].result = Undecorated(frames[c]).value

\* C10: the append-output step puts its payload last and leaves the
\* positional elements already there in place, whatever steps came before;
\* and with pass_output every observer of postcall receives the target's
\* return value as its last positional argument, the value the call returns.
C10_AppendOutput ==
    /\ [][AppendStep =>
            /\ Len(parser'.args) = Len(parser.args) + 1
            /\ parser'.args[Len(parser'.args)] = parser.config_sequence[pos].arg
            /\ \A i \in 1..Len(parser.args) : parser'.args[i] = parser.args[i]]_vars
    /\ []OutputLast

\* C10 witness: the step has just run on an accumulator that held elements
C10_Witness ==
    /\ pos \in 2..(Len(parser.config_sequence) + 1)
    /\ exc = NoExc
    /\ parser.config_sequence[pos - 1] = Tagged(CONFIG_INSERT_OUTPUT_AT_END, "42")
    /\ Len(parser.args) = 3
    /\ parser.args[3] = "42"

-----------------------------------------------------------------------------
(* Properties of the composer's steps *)

\* an iteration of get()'s loop that ran the handler of its entry
HandlerStep ==
    /\ pos \in 1..Len(parser.config_sequence)
    /\ pos' = pos + 1

\* the entry that HandlerStep ran
StepEntry == parser.config_sequence[pos]

\* every explicit keyword of the call is in the composed map with its value
ExplicitWins ==
    \A n \in DOMAIN parser.function_kwargs :
        n \in DOMAIN parser.kwargs /\ parser.kwargs[n] = parser.function_kwargs[n]

\* C11 as claimed: after every step of every configuration sequence, a key
\* the call supplied as an explicit keyword never holds anything but the
\* explicit value in the composed keyword map.
C11_ExplicitAlwaysWins ==
    \A n \in DOMAIN parser.function_kwargs \cap DOMAIN parser.kwargs :
        parser.kwargs[n] = parser.function_kwargs[n]

\* C11 amended: an include-keyword step leaves every explicit keyword in the
\* composed map with its explicit value, and no later step of any kind
\* changes that: from then on explicit values win over declared defaults.
C11_ExplicitWinsOnceIncluded ==
    /\ [][(HandlerStep /\ StepEntry = Bare(CONFIG_INCLUDE_KWARGS)) => ExplicitWins']_vars
    /\ [][ExplicitWins => ExplicitWins']_vars

\* C11 witness: include-defaults has run after include-keyword for a call
\* whose explicit keyword names a parameter with a default
C11_Witness ==
    /\ pos = 3
    /\ exc = NoExc
    /\ parser.config_sequence[1] = Bare(CONFIG_INCLUDE_KWARGS)
    /\ parser.config_sequence[2] = Bare(CONFIG_INCLUDE_DEFAULTS)
    /\ parser.function = "test_function"
    /\ "default_value" \in DOMAIN parser.function_kwargs
    /\ parser.kwargs["default_value"] = "value"

\* the step repeats the entry just before it
RepeatedStep ==
    /\ HandlerStep
    /\ pos >= 2
    /\ StepEntry = parser.config_sequence[pos - 1]

Unchanged == parser'.args = parser.args /\ parser'.kwargs = parser.kwargs

\* C12 as claimed: a step other than prepend-function applied a second time
\* leaves the composed arguments as they were after the first application.
C12_AllButPrependIdempotent ==
    [][(RepeatedStep /\ StepEntry # Bare(CONFIG_INSERT_FUNCTION_AT_FRONT)) => Unchanged]_vars

\* C12 amended: include-keyword and include-defaults are idempotent; the
\* three steps that write the positional list are not: a repeated
\* include-positional appends the call's positional arguments again, a
\* repeated prepend-function inserts the function again, and a repeated
\* append-output appends its payload again.
C12_KeywordStepsIdempotent ==
    [][RepeatedStep =>
        /\ StepEntry \in {Bare(CONFIG_INCLUDE_KWARGS), Bare(CONFIG_INCLUDE_DEFAULTS)}
              => Unchanged
        /\ StepEntry = Bare(CONFIG_INCLUDE_ARGS)
              => parser'.args = parser.args \o parser.function_args
        /\ StepEntry = Bare(CONFIG_INSERT_FUNCTION_AT_FRONT)
              => parser'.args = <<parser.function>> \o parser.args
        /\ (StepEntry.is_tuple /\ StepEntry.cfg = CONFIG_INSERT_OUTPUT_AT_END)
              => parser'.args = Append(parser.args, StepEntry.arg)]_vars

\* C12 witness: include-positional has run twice in a row for a call with
\* two positional arguments, and the composed tuple holds them twice
C12_Witness ==
    /\ pos = 3
    /\ exc = NoExc
    /\ gets = 1
    /\ parser.config_sequence[1] = Bare(CONFIG_INCLUDE_ARGS)
    /\ parser.config_sequence[2] = Bare(CONFIG_INCLUDE_ARGS)
    /\ Len(parser.function_args) = 2
    /\ Len(parser.args) = 4

\* the entry's tag has a handler
Supported(config) == config.cfg \in Handlers

\* the entry carries a payload exactly when its handler takes one
WellShaped(config) == config.is_tuple <=> config.cfg = CONFIG_INSERT_OUTPUT_AT_END

\* the entries the current get() has gone past
Passed == IF pos = 0 THEN {} ELSE 1..(pos - 1)

KeptInOrder(old, new) ==
    \E d \in 0..(Len(new) - Len(old)) : \A i \in 1..Len(old) : new[i + d] = old[i]

\* C15: the accumulator starts empty, and no step of any configuration
\* sequence removes a positional element or reorders those present, or
\* removes a key of the keyword map; include-defaults changes the value of
\* no key already present.
C15_AccumulatorGrows ==
    /\ [](gets = 0 => (parser.args = <<>> /\ parser.kwargs = EmptyDict))
    /\ [][/\ Len(parser'.args) >= Len(parser.args)
          /\ KeptInOrder(parser.args, parser'.args)
          /\ DOMAIN parser.kwargs \subseteq DOMAIN parser'.kwargs
          /\ (HandlerStep /\ StepEntry = Bare(CONFIG_INCLUDE_DEFAULTS)) =>
                \A n \in DOMAIN parser.kwargs : parser'.kwargs[n] = parser.kwargs[n]]_vars

\* C15 witness: include-defaults, then include-keyword, then prepend-function
\* have run on an accumulator that already held a default
C15_Witness ==
    /\ pos = 4
    /\ exc = NoExc
    /\ parser.config_sequence = <<Bare(CONFIG_INCLUDE_DEFAULTS), Bare(CONFIG_INCLUDE_KWARGS),
                                  Bare(CONFIG_INSERT_FUNCTION_AT_FRONT)>>
    /\ DOMAIN parser.kwargs = {"key", "default_value"}
    /\ parser.args = <<parser.function>>

\* C18: a second get() on the same instance returns what the first returned.
\* (The keyword map returned is the instance's own dict both times; the
\* positional tuples are compared.)
C18_GetIdempotent == Len(rets) >= 2 => rets[2] = rets[1]

-----------------------------------------------------------------------------
(* Properties of the observers' arguments and of the observer collection *)

\* the calls of observers among the calls the activation made, in order
ObserverLog(fr) == SelectSeq(fr.log, LAMBDA e : e.callee \in Observers)

\* one call of each observer of obs, in order, with no argument at all
BareEvents(obs) == [j \in 1..Len(obs) |-> Event(obs[j], <<>>, EmptyDict)]

IsPrefix(s, t) == Len(s) <= Len(t) /\ \A j \in 1..Len(s) : s[j] = t[j]

\* C14: precall with pass_inputs and pass_func both false, given one callable
\* or a list: whatever the decorated function is called with, the observers
\* are invoked in order with no positional and no keyword argument, and a
\* call that returns has invoked each of them exactly once.
C14_NoInputsForwarded ==
    \A c \in DOMAIN frames :
        (deco.cls = "precall" /\ ~deco.pass_inputs /\ ~deco.pass_func
            /\ given.type \in {"function", "list"}) =>
                /\ IsPrefix(ObserverLog(frames[c]), BareEvents(Registered))
                /\ frames[c].pc = "returned" =>
                      frames[c].log = BareEvents(Registered) \o <<TargetEvent(frames[c])>>

\* C14 witness: a call with two positional arguments and a keyword has
\* returned after both listed observers ran without arguments
C14_Witness ==
    /\ deco.cls = "precall"
    /\ ~deco.pass_inputs /\ ~deco.pass_func
    /\ given = [type |-> "list", items |-> <<"updateArgs", "updateKwargs">>]
    /\ frames[1].pc = "returned"
    /\ frames[1].args = <<"1", "2">>
    /\ DOMAIN frames[1].kwargs = {"key"}
    /\ Len(frames[1].log) = 3
    /\ frames[1].log[1] = Event("updateArgs", <<>>, EmptyDict)

\* C16: the observer collection the wrapper iterates is what was registered
\* at construction, whatever calls have been made: no call consumes it.
C16_CollectionReadOnly ==
    (deco.cls \in {"precall", "postcall"} /\ deco.exc = NoExc /\ ~Invalid(given)) =>
        Collection(deco).items = Registered

-----------------------------------------------------------------------------
(* Concurrent calls of the decorated function *)

\* the positional arguments the flags ask for, from the activation's own
\* call arguments and result
OwnArgs(fr) ==
    (IF deco.pass_func THEN <<func>> ELSE <<>>)
    \o (IF deco.pass_inputs THEN fr.args ELSE <<>>)
    \o (IF deco.cls = "postcall" /\ deco.pass_output THEN <<fr.result>> ELSE <<>>)

\* the keyword arguments the flags ask for, from the activation's own call
OwnKwargs(fr) ==
    IF deco.pass_inputs
    THEN [n \in DOMAIN fr.kwargs \cup DefaultNames(func) |->
            IF n \in DOMAIN fr.kwargs THEN fr.kwargs[n] ELSE DeclaredDefault(func, n)]
    ELSE EmptyDict

\* C17: under every interleaving of concurrent calls, every observer call an
\* activation makes carries the arguments composed from that activation's
\* own positional arguments, keyword arguments and return value.
C17_OwnComposedArguments ==
    \A c \in DOMAIN frames :
        \A j \in 1..Len(frames[c].log) :
            frames[c].log[j].callee \in Observers =>
                /\ frames[c].log[j].args = OwnArgs(frames[c])
                /\ frames[c].log[j].kwargs = OwnKwargs(frames[c])

\* C17 witness: two callers with different arguments are both half way
\* through the observer loop, each having made its first observer call
C17_Witness ==
    /\ deco.cls \in {"precall", "postcall"}
    /\ deco.pass_inputs
    /\ given = [type |-> "list", items |-> <<"updateArgs", "updateKwargs">>]
    /\ frames[1].pc = "loop" /\ frames[1].i = 2
    /\ frames[2].pc = "loop" /\ frames[2].i = 2
    /\ frames[1].args # frames[2].args
    /\ frames[1].kwargs # frames[2].kwargs

-----------------------------------------------------------------------------
(* Composition and the call itself *)

\* C20: composing never changes the call's positional arguments or keyword
\* map held by the ArgParser, and every invocation of the target by a
\* precall or postcall wrapper, whatever the flags, carries exactly the
\* positional and keyword arguments the caller passed.
C20_CallUntouched ==
    /\ [][/\ parser'.function_args = parser.function_args
          /\ parser'.function_kwargs = parser.function_kwargs]_vars
    /\ [](\A c \in DOMAIN frames :
            \A j \in 1..Len(frames[c].log) :
                frames[c].log[j].callee \in Functions =>
                    frames[c].log[j] = TargetEvent(frames[c]))

\* C20 witness: precall forwarding inputs and function has composed the
\* function, the positional arguments and a default for its observer, and
\* the call has returned what the target returns for the bare arguments
C20_Witness ==
    /\ deco.cls = "precall"
    /\ deco.pass_inputs /\ deco.pass_func
    /\ func = "test_function"
    /\ frames[1].pc = "returned"
    /\ frames[1].args = <<"2", "1">>
    /\ DOMAIN frames[1].kwargs = {"key"}
    /\ frames[1].wrapper_args = <<"test_function", "2", "1">>
    /\ DOMAIN frames[1].wrapper_kwargs = {"key", "default_value"}
    /\ Len(frames[1].log) = 2
    /\ frames[1].log[2] = Event("test_function", <<"2", "1">>, frames[1].kwargs)

-----------------------------------------------------------------------------
(* The debug helpers *)

\* C19: debug_input called with deco=False, with input_args and input_kwargs
\* supplied or left at None, returns None without invoking the target, and
\* has logged exactly one CALL message, composed with include-positional,
\* include-keyword, include-defaults when the arguments were supplied.
C19_StandaloneDebugInput ==
    dbg.op = "debug_input" =>
        /\ dbg.pc = "returned"
        /\ dbg.result = None
        /\ dbg.calls = <<>>
        /\ Len(dbg.msgs) = 1
        /\ dbg.msgs[1].action = "CALL"
        /\ (~dbg.input_args.none /\ ~dbg.input_kwargs.none) =>
              /\ dbg.msgs[1].args = dbg.input_args.val
              /\ dbg.msgs[1].kwargs =
                    [n \in DOMAIN dbg.input_kwargs.val \cup DefaultNames(dbg.func) |->
                        IF n \in DOMAIN dbg.input_kwargs.val THEN dbg.input_kwargs.val[n]
                        ELSE DeclaredDefault(dbg.func, n)]

====
